---- MODULE Spec2Model ----
(***************************************************************************)
(* Model of src/src/OscapScannerLocal.cpp (scap-workbench): the local scan *)
(* supervisor OscapScannerLocal::evaluate(), the capability probe          *)
(* fillInCapabilities(), the artifact files of LocalOscapSession and the   *)
(* role generator createRemediationRoleAfterEvaluate().                    *)
(*                                                                         *)
(* evaluate() is a long-running handler that interleaves with the external *)
(* oscap process and with cancel requests queued by the user interface, so *)
(* it is split at the points where the environment can act: one action per *)
(* block of the source between two such points.                            *)
(***************************************************************************)
EXTENDS Integers, Sequences, FiniteSets, TLC

\* ------------------------------------------------------------------ bounds
\* Number of handler invocations (evaluate or role generation) on one scanner.
MaxCalls == 2
\* Longest payload the external tool writes after a file's tag byte.
MaxLen == 1
\* The kill counter saturates here (0, 1, ..., "MaxKills or more").
MaxKills == 2

\* ------------------------------------------------------------------ domains
FileNames == {"result", "report", "arf"}
\* The order in which the external tool produces its output files.
WriteOrder == <<"result", "report", "arf">>
\* First byte of each file kind the tool writes (the formats differ).
FileTag == [result |-> 101, report |-> 102, arf |-> 103, role |-> 104]
ScannerModes == {"SM_SCAN", "SM_SCAN_ONLINE_REMEDIATION", "SM_OFFLINE_REMEDIATION"}
\* Exit codes of the external tool: success, tool-reported error, any other.
ExitCodes == {0, 1, 2}
\* Diagnostic info a failed probe may carry (stdout/stderr of "oscap -V").
DiagInfos == {<<>>, <<"diag">>}
\* Profile identifiers of the session: absent or present.
ProfileIds == {"", "xccdf_org_profile_1"}

\* Payload the tool of call number c writes after the tag: MaxLen bytes; the
\* bytes are the call number, so the bytes of different runs are
\* distinguishable.
Payloads(c) == {[i \in 1..MaxLen |-> c]}

NoProcess ==
    [state |-> "NotRunning", kind |-> "none", cmd |-> "none", exitCode |-> 0,
     progress |-> 0, killed |-> FALSE, payload |-> <<>>]

VARIABLES
    \* ---- OscapScannerBase / OscapScannerLocal members
    mDryRun, mScannerMode, mCancelRequested, mCapabilities,
    mResults, mReport, mARF,
    \* ---- LocalOscapSession: contents of mResultFile, mReportFile, mArfFile
    \* and the set of those files that exist on disk
    files, created,
    \* ---- the destination of role generation: [exists, data]
    roleFile,
    \* ---- control: position inside the running handler, the exception in
    \* flight (its message, <<>> when none), calls made so far
    pc, thrown, calls,
    \* ---- locals of evaluate(): pollInterval and the QProcess
    pollInterval, proc,
    \* ---- the scan thread's event queue: a cancel() call waiting to be pumped
    cancelPending,
    \* ---- what the current call did, as its collaborators observe it
    completions, notices, kills, spawns, probes, prereqs, opened,
    \* ---- history of the current call: which handler it is and what it
    \* started from
    handler, profileAtCall, buffersAtEntry, roleFileAtEntry,
    \* ---- history of the current call: a cancel request was made (at all,
    \* while the scan process was alive, the first one after the first poll
    \* tick with the process alive) and one was delivered by the pump
    cancelRequested, cancelBeforeExit, cancelAfterTick, cancelDelivered,
    \* ---- history of the current call: the files as they were at the launch,
    \* the probe's exit code (-1: no probe yet), a poll tick has elapsed
    filesAtLaunch, probeExit, ticked,
    \* ---- the verdict of checkPrerequisites in the current call
    \* ("none" before the check, then "passed" or "failed")
    prereqVerdict,
    \* ---- the process's stdout and stderr pipes: the chunks it has produced
    \* that nobody has read yet
    outPipe, errPipe,
    \* ---- the output the scanner has read from stdout and from stderr in the
    \* current call, in the order it read it
    stdOutSeen, stdErrSeen,
    \* ---- the artifact files whose open() for reading failed in this call
    openFailed

scanner == <<mDryRun, mScannerMode, mCancelRequested, mCapabilities>>
buffers == <<mResults, mReport, mARF>>
disk == <<files, created, roleFile>>
observed == <<completions, notices, kills, spawns, probes, prereqs, opened>>
callHist == <<handler, profileAtCall, buffersAtEntry, roleFileAtEntry>>
cancelHist == <<cancelRequested, cancelBeforeExit, cancelAfterTick, cancelDelivered>>
stepHist == <<filesAtLaunch, probeExit, ticked, prereqVerdict>>
pipes == <<outPipe, errPipe>>
drained == <<stdOutSeen, stdErrSeen>>
io == <<pipes, drained, openFailed>>
history == <<callHist, cancelHist, stepHist>>
vars == <<scanner, buffers, disk, pc, thrown, calls, pollInterval, proc, cancelPending,
          observed, history, io>>

\* ------------------------------------------------------------------ helpers
Info(text) == [level |-> "info", text |-> text]
Error(text) == [level |-> "error", text |-> text]

\* Scanner::signalCompletion(bool): one completion event carrying the flag.
signalCompletion(canceled) == Append(completions, canceled)

\* QIODevice::readAll on a file opened from its start.
readAll(f) == files[f]

\* mFile.open(); buffer = mFile.readAll(); mFile.close(): the result of open()
\* is not looked at, and readAll on a device that is not open returns nothing.
openAndReadAll(f, failing) == IF f \in failing THEN <<>> ELSE readAll(f)

\* The open() failures of one finalize step: each of the three calls fails or
\* succeeds on its own.
OpenFailures == SUBSET FileNames

\* readStdOut(process), watchStdErr(process): take everything new off the pipe
\* and append it to what was read before.
readStdOut(seen, pipe) == seen \o pipe
watchStdErr(seen, pipe) == seen \o pipe

\* LocalOscapSession::setFilenameToTempFile: open() creates the file when it
\* does not exist yet (it then holds nothing) and opens an existing one as it
\* is; close().  The contents of the file stay what they were.
setFilenameToTempFile(fs, f) == [fs EXCEPT ![f] = @]

\* LocalOscapSession::LocalOscapSession(): the three files, created empty.
LocalOscapSession ==
    /\ files = setFilenameToTempFile(setFilenameToTempFile(setFilenameToTempFile(
                   [f \in FileNames |-> <<>>], "arf"), "report"), "result")
    /\ created = FileNames

Init ==
    /\ LocalOscapSession
    /\ mDryRun = FALSE
    /\ mScannerMode = "SM_SCAN"
    /\ mCancelRequested = FALSE
    /\ mCapabilities = FALSE
    /\ mResults = <<>> /\ mReport = <<>> /\ mARF = <<>>
    /\ roleFile \in {[exists |-> FALSE, data |-> <<>>],
                     [exists |-> TRUE, data |-> <<FileTag.role>>]}
    /\ pc = "idle"
    /\ thrown = <<>>
    /\ calls = 0
    /\ pollInterval = 100
    /\ proc = NoProcess
    /\ cancelPending = FALSE
    /\ completions = <<>>
    /\ notices = {}
    /\ kills = 0 /\ spawns = 0 /\ probes = 0 /\ prereqs = 0
    /\ opened = {}
    /\ handler = "none"
    /\ profileAtCall = ""
    /\ buffersAtEntry = <<<<>>, <<>>, <<>>>>
    /\ roleFileAtEntry = roleFile
    /\ cancelRequested = FALSE /\ cancelBeforeExit = FALSE
    /\ cancelAfterTick = FALSE /\ cancelDelivered = FALSE
    /\ filesAtLaunch = [f \in FileNames |-> <<>>]
    /\ probeExit = -1
    /\ ticked = FALSE
    /\ prereqVerdict = "none"
    /\ outPipe = <<>> /\ errPipe = <<>>
    /\ stdOutSeen = <<>> /\ stdErrSeen = <<>>
    /\ openFailed = {}

\* What a call starts from: nothing observed yet, no process, no history.
FreshCall(h, profileId) ==
    /\ handler' = h
    /\ profileAtCall' = profileId
    /\ calls' = calls + 1
    /\ pollInterval' = 100
    /\ completions' = <<>>
    /\ kills' = 0 /\ probes' = 0 /\ prereqs' = 0
    /\ opened' = {}
    /\ buffersAtEntry' = buffers
    /\ roleFileAtEntry' = roleFile
    /\ cancelRequested' = FALSE /\ cancelBeforeExit' = FALSE
    /\ cancelAfterTick' = FALSE /\ cancelDelivered' = FALSE
    /\ filesAtLaunch' = filesAtLaunch
    /\ probeExit' = -1
    /\ ticked' = FALSE
    /\ prereqVerdict' = "none"
    /\ outPipe' = <<>> /\ errPipe' = <<>>
    /\ stdOutSeen' = <<>> /\ stdErrSeen' = <<>>
    /\ openFailed' = {}

\* ------------------------------------------------------------------ evaluate
\* The caller configures a run (setDryRun, setScannerMode) and invokes
\* evaluate().  The Scan Run State is transient for a single orchestration:
\* the cancellation flag and the event queue start clear.
StartEvaluate ==
    /\ pc = "idle"
    /\ calls < MaxCalls
    /\ \E dry \in BOOLEAN, mode \in ScannerModes :
          /\ mDryRun' = dry
          /\ mScannerMode' = mode
    /\ mCancelRequested' = FALSE
    /\ cancelPending' = FALSE
    /\ pc' = "entry"
    /\ FreshCall("evaluate", "")
    /\ proc' = NoProcess
    /\ notices' = {}
    /\ spawns' = 0
    /\ UNCHANGED <<mCapabilities, buffers, disk, thrown>>

\* evaluate(), lines 77-83: the dry-run short cut.
evaluate_entry ==
    /\ pc = "entry"
    /\ IF mDryRun
         THEN /\ completions' = signalCompletion(mCancelRequested)
              /\ pc' = "idle"
              /\ UNCHANGED notices
         ELSE /\ notices' = notices \cup {Info(<<"Querying capabilities...">>)}
              /\ pc' = "probe"
              /\ UNCHANGED completions
    /\ UNCHANGED <<io, scanner, buffers, disk, thrown, calls, pollInterval, proc,
                   cancelPending, kills, spawns, probes, prereqs, opened, history>>

\* The message of the runtime_error fillInCapabilities throws.
ProbeMessage(diag) ==
    <<"Failed to query capabilities of oscap on local machine.", "Diagnostic info:">> \o diag

\* fillInCapabilities testing "exit code == 1" in place of "!= 0" at line 62.
fillInCapabilities_OnlyOne ==
    /\ pc = "probe"
    /\ probes' = probes + 1
    /\ \E code \in ExitCodes, diag \in DiagInfos :
          /\ probeExit' = code
          /\ IF code = 1
            THEN /\ mCancelRequested' = TRUE
                 /\ completions' = signalCompletion(mCancelRequested')
                 /\ thrown' = ProbeMessage(diag)
                 /\ pc' = "catch"
                 /\ UNCHANGED mCapabilities
            ELSE /\ mCapabilities' = TRUE
                 /\ pc' = "prereq"
                 /\ UNCHANGED <<mCancelRequested, completions, thrown>>
    /\ UNCHANGED <<io, mDryRun, mScannerMode, buffers, disk, calls, pollInterval, proc,
                   cancelPending, notices, kills, spawns, prereqs, opened, callHist,
                   cancelHist, filesAtLaunch, ticked, prereqVerdict>>

\* fillInCapabilities throwing at line 69 without lines 67-68 (flag, completion).
fillInCapabilities_ThrowsOnly ==
    /\ pc = "probe"
    /\ probes' = probes + 1
    /\ \E code \in ExitCodes, diag \in DiagInfos :
          /\ probeExit' = code
          /\ IF code # 0
            THEN /\ thrown' = ProbeMessage(diag)
                 /\ pc' = "catch"
                 /\ UNCHANGED <<mCapabilities, mCancelRequested, completions>>
            ELSE /\ mCapabilities' = TRUE
                 /\ pc' = "prereq"
                 /\ UNCHANGED <<mCancelRequested, completions, thrown>>
    /\ UNCHANGED <<io, mDryRun, mScannerMode, buffers, disk, calls, pollInterval, proc,
                   cancelPending, notices, kills, spawns, prereqs, opened, callHist,
                   cancelHist, filesAtLaunch, ticked, prereqVerdict>>

\* fillInCapabilities(), lines 55-73: the synchronous "oscap -V".
fillInCapabilities ==
    /\ pc = "probe"
    /\ probes' = probes + 1
    /\ \E code \in ExitCodes, diag \in DiagInfos :
          /\ probeExit' = code
          /\ IF code # 0
            THEN /\ mCancelRequested' = TRUE
                 /\ completions' = signalCompletion(mCancelRequested')
                 /\ thrown' = ProbeMessage(diag)
                 /\ pc' = "catch"
                 /\ UNCHANGED mCapabilities
            ELSE /\ mCapabilities' = TRUE
                 /\ pc' = "prereq"
                 /\ UNCHANGED <<mCancelRequested, completions, thrown>>
    /\ UNCHANGED <<io, mDryRun, mScannerMode, buffers, disk, calls, pollInterval, proc,
                   cancelPending, notices, kills, spawns, prereqs, opened, callHist,
                   cancelHist, filesAtLaunch, ticked, prereqVerdict>>

\* evaluate_catch signalling completion a second time before it returns.
evaluate_catch_SignalsAgain ==
    /\ pc = "catch"
    /\ notices' = notices \cup {Error(thrown)}
    /\ completions' = signalCompletion(mCancelRequested)
    /\ thrown' = <<>>
    /\ pc' = "idle"
    /\ UNCHANGED <<io, scanner, buffers, disk, calls, pollInterval, proc, cancelPending,
                   kills, spawns, probes, prereqs, opened, history>>

\* evaluate(), lines 88-92: the catch block.
evaluate_catch ==
    /\ pc = "catch"
    /\ notices' = notices \cup {Error(thrown)}
    /\ thrown' = <<>>
    /\ pc' = "idle"
    /\ UNCHANGED <<io, scanner, buffers, disk, calls, pollInterval, proc, cancelPending,
                   completions, kills, spawns, probes, prereqs, opened, history>>

\* evaluate_prerequisites without the return of lines 96-99: a failed check goes on to the launch.
evaluate_prerequisites_IgnoreVerdict ==
    /\ pc = "prereq"
    /\ prereqs' = prereqs + 1
    /\ \E ok \in BOOLEAN :
          IF ~ok
            THEN /\ prereqVerdict' = "failed"
                 /\ pc' = "launch"
                 /\ UNCHANGED <<mCancelRequested, completions>>
            ELSE /\ prereqVerdict' = "passed"
                 /\ pc' = "launch"
                 /\ UNCHANGED <<mCancelRequested, completions>>
    /\ UNCHANGED <<io, mDryRun, mScannerMode, mCapabilities, buffers, disk, thrown, calls,
                   pollInterval, proc, cancelPending, notices, kills, spawns, probes,
                   opened, callHist, cancelHist, filesAtLaunch, probeExit, ticked>>

\* evaluate(), lines 94-99: checkPrerequisites() is a collaborator; its
\* verdict is an input.
evaluate_prerequisites ==
    /\ pc = "prereq"
    /\ prereqs' = prereqs + 1
    /\ \E ok \in BOOLEAN :
          IF ~ok
            THEN /\ prereqVerdict' = "failed"
                 /\ mCancelRequested' = TRUE
                 /\ completions' = signalCompletion(mCancelRequested')
                 /\ pc' = "idle"
            ELSE /\ prereqVerdict' = "passed"
                 /\ pc' = "launch"
                 /\ UNCHANGED <<mCancelRequested, completions>>
    /\ UNCHANGED <<io, mDryRun, mScannerMode, mCapabilities, buffers, disk, thrown, calls,
                   pollInterval, proc, cancelPending, notices, kills, spawns, probes,
                   opened, callHist, cancelHist, filesAtLaunch, probeExit, ticked>>

\* The argument builder evaluate() picks for the scanner mode, lines 122-141.
ArgsFor(mode) ==
    IF mode = "SM_OFFLINE_REMEDIATION"
      THEN "buildOfflineRemediationArgs"
      ELSE IF mode = "SM_SCAN_ONLINE_REMEDIATION"
             THEN "buildEvaluationArgs_onlineRemediation"
             ELSE "buildEvaluationArgs"

\* evaluate(), lines 105-145: the arguments, process.start() and
\* waitForStarted().  Whether the start succeeds is an input; the tool's
\* payload is fixed here.  A started process runs from here on, also while
\* evaluate() is still inside waitForStarted().
evaluate_launch ==
    /\ pc = "launch"
    /\ spawns' = spawns + 1
    /\ filesAtLaunch' = files
    /\ notices' = notices \cup {Info(<<"Starting the oscap process...">>)}
    /\ \E started \in BOOLEAN, payload \in Payloads(calls) :
          proc' = IF started
                    THEN [NoProcess EXCEPT !.state = "Running", !.kind = "scan",
                                           !.cmd = ArgsFor(mScannerMode),
                                           !.payload = payload]
                    ELSE [NoProcess EXCEPT !.kind = "scan",
                                           !.cmd = ArgsFor(mScannerMode)]
    /\ pc' = "started"
    /\ UNCHANGED <<io, scanner, buffers, disk, thrown, calls, pollInterval,
                   cancelPending, completions, kills, probes, prereqs, opened,
                   callHist, cancelHist, probeExit, ticked, prereqVerdict>>

\* QProcess::state() == QProcess::Running: the process was started and
\* QProcess has not reported it finished (an exit is noticed only inside
\* waitForFinished).
isRunning(p) == p.state \in {"Running", "Exited"}

\* evaluate(), lines 147-155: the state test after waitForStarted(), the
\* poll interval and the "Processing..." notice.
evaluate_started ==
    /\ pc = "started"
    /\ IF ~isRunning(proc)
         THEN /\ notices' = notices \cup
                    {Error(<<"Failed to start local scanning process">>),
                     Info(<<"Processing...">>)}
              /\ mCancelRequested' = TRUE
         ELSE /\ notices' = notices \cup {Info(<<"Processing...">>)}
              /\ UNCHANGED mCancelRequested
    /\ pollInterval' = 100
    /\ pc' = "wait"
    /\ UNCHANGED <<io, mDryRun, mScannerMode, mCapabilities, buffers, disk, thrown, calls,
                   proc, cancelPending, completions, kills, spawns, probes, prereqs,
                   opened, history>>

\* QProcess::waitForFinished: true iff the process was running and is found to
\* have finished; false on a timeout and false for a process that is not
\* running (never started, or already reported finished).
waitForFinished(p) == p.state = "Exited"

\* evaluate(), line 156: the loop condition.
evaluate_wait ==
    /\ pc = "wait"
    /\ IF waitForFinished(proc)
         THEN /\ proc' = [proc EXCEPT !.state = "Finished"]
              /\ pc' = "finalize"
         ELSE /\ pc' = "readStdOut"
              /\ UNCHANGED proc
    /\ UNCHANGED <<io, scanner, buffers, disk, thrown, calls, pollInterval, cancelPending,
                   observed, history>>

\* QProcess::kill on the process: it takes effect only on a live process.
kill(p) == IF p.state = "Running" THEN [p EXCEPT !.killed = TRUE] ELSE p

\* evaluate(), line 159: everything new on stdout.
evaluate_readStdOut ==
    /\ pc = "readStdOut"
    /\ stdOutSeen' = readStdOut(stdOutSeen, outPipe)
    /\ outPipe' = <<>>
    /\ pc' = "watchStdErr"
    /\ UNCHANGED <<scanner, buffers, disk, thrown, calls, pollInterval, proc,
                   cancelPending, observed, history, errPipe, stdErrSeen, openFailed>>

\* evaluate(), line 160: everything new on stderr.
evaluate_watchStdErr ==
    /\ pc = "watchStdErr"
    /\ stdErrSeen' = watchStdErr(stdErrSeen, errPipe)
    /\ errPipe' = <<>>
    /\ pc' = "pump"
    /\ UNCHANGED <<scanner, buffers, disk, thrown, calls, pollInterval, proc,
                   cancelPending, observed, history, outPipe, stdOutSeen, openFailed>>

\* evaluate(), line 163: processEvents runs the queued cancel(), which sets
\* the flag.
evaluate_pump ==
    /\ pc = "pump"
    /\ mCancelRequested' = (mCancelRequested \/ cancelPending)
    /\ cancelDelivered' = (cancelDelivered \/ cancelPending)
    /\ cancelPending' = FALSE
    /\ pc' = "poll"
    /\ UNCHANGED <<io, mDryRun, mScannerMode, mCapabilities, buffers, disk, thrown, calls,
                   pollInterval, proc, observed, callHist, cancelRequested,
                   cancelBeforeExit, cancelAfterTick, stepHist>>

\* evaluate(), lines 165-170: the test of the flag that ends a turn of the
\* loop.
evaluate_poll ==
    /\ pc = "poll"
    /\ ticked' = TRUE
    /\ IF mCancelRequested
         THEN /\ pollInterval' = 1000
              /\ notices' = notices \cup
                    {Info(<<"Cancellation was requested! Terminating scanning...">>)}
              /\ proc' = kill(proc)
              /\ kills' = IF kills < MaxKills THEN kills + 1 ELSE kills
         ELSE UNCHANGED <<pollInterval, notices, proc, kills>>
    /\ pc' = "wait"
    /\ UNCHANGED <<io, scanner, buffers, disk, thrown, calls, cancelPending,
                   completions, spawns, probes, prereqs, opened, callHist,
                   cancelHist, filesAtLaunch, probeExit, prereqVerdict>>

\* evaluate_finalize without "mCancelRequested = true" of line 181.
evaluate_finalize_NoMark ==
    /\ pc = "finalize"
    /\ IF ~mCancelRequested
         THEN IF proc.exitCode = 1
                THEN /\ stdErrSeen' = watchStdErr(stdErrSeen, errPipe)
                     /\ errPipe' = <<>>
                     /\ notices' = notices \cup
                           {Error(<<"There was an error during evaluation! Exit code of the 'oscap' process was 1.">>)}
                     /\ UNCHANGED <<mCancelRequested, buffers, opened, openFailed,
                                    stdOutSeen, outPipe>>
                ELSE /\ stdOutSeen' = readStdOut(stdOutSeen, outPipe)
                     /\ stdErrSeen' = watchStdErr(stdErrSeen, errPipe)
                     /\ outPipe' = <<>> /\ errPipe' = <<>>
                     /\ \E failing \in OpenFailures :
                           /\ mResults' = openAndReadAll("result", failing)
                           /\ mReport' = openAndReadAll("report", failing)
                           /\ mARF' = openAndReadAll("arf", failing)
                           /\ opened' = opened \cup ({"result", "report", "arf"} \ failing)
                           /\ openFailed' = failing
                     /\ notices' = notices \cup
                           {Info(<<"The oscap tool has finished. Reading results...">>),
                            Info(<<"Processing has been finished!">>)}
                     /\ UNCHANGED mCancelRequested
         ELSE /\ notices' = notices \cup {Info(<<"Scanning cancelled!">>)}
              /\ UNCHANGED <<mCancelRequested, buffers, opened, io>>
    /\ pc' = "complete"
    /\ UNCHANGED <<mDryRun, mScannerMode, mCapabilities, disk, thrown, calls,
                   pollInterval, proc, cancelPending, completions, kills, spawns,
                   probes, prereqs, history>>

\* evaluate_finalize without the test of the flag at line 173.
evaluate_finalize_IgnoreCancel ==
    /\ pc = "finalize"
    /\ IF TRUE
         THEN IF proc.exitCode = 1
                THEN /\ stdErrSeen' = watchStdErr(stdErrSeen, errPipe)
                     /\ errPipe' = <<>>
                     /\ notices' = notices \cup
                           {Error(<<"There was an error during evaluation! Exit code of the 'oscap' process was 1.">>)}
                     /\ mCancelRequested' = TRUE
                     /\ UNCHANGED <<buffers, opened, openFailed, stdOutSeen, outPipe>>
                ELSE /\ stdOutSeen' = readStdOut(stdOutSeen, outPipe)
                     /\ stdErrSeen' = watchStdErr(stdErrSeen, errPipe)
                     /\ outPipe' = <<>> /\ errPipe' = <<>>
                     /\ \E failing \in OpenFailures :
                           /\ mResults' = openAndReadAll("result", failing)
                           /\ mReport' = openAndReadAll("report", failing)
                           /\ mARF' = openAndReadAll("arf", failing)
                           /\ opened' = opened \cup ({"result", "report", "arf"} \ failing)
                           /\ openFailed' = failing
                     /\ notices' = notices \cup
                           {Info(<<"The oscap tool has finished. Reading results...">>),
                            Info(<<"Processing has been finished!">>)}
                     /\ UNCHANGED mCancelRequested
         ELSE /\ notices' = notices \cup {Info(<<"Scanning cancelled!">>)}
              /\ UNCHANGED <<mCancelRequested, buffers, opened, io>>
    /\ pc' = "complete"
    /\ UNCHANGED <<mDryRun, mScannerMode, mCapabilities, disk, thrown, calls,
                   pollInterval, proc, cancelPending, completions, kills, spawns,
                   probes, prereqs, history>>

\* evaluate_finalize with "exitCode() != 0" for the test of line 175.
evaluate_finalize_AnyNonZero ==
    /\ pc = "finalize"
    /\ IF ~mCancelRequested
         THEN IF proc.exitCode # 0
                THEN /\ stdErrSeen' = watchStdErr(stdErrSeen, errPipe)
                     /\ errPipe' = <<>>
                     /\ notices' = notices \cup
                           {Error(<<"There was an error during evaluation! Exit code of the 'oscap' process was 1.">>)}
                     /\ mCancelRequested' = TRUE
                     /\ UNCHANGED <<buffers, opened, openFailed, stdOutSeen, outPipe>>
                ELSE /\ stdOutSeen' = readStdOut(stdOutSeen, outPipe)
                     /\ stdErrSeen' = watchStdErr(stdErrSeen, errPipe)
                     /\ outPipe' = <<>> /\ errPipe' = <<>>
                     /\ \E failing \in OpenFailures :
                           /\ mResults' = openAndReadAll("result", failing)
                           /\ mReport' = openAndReadAll("report", failing)
                           /\ mARF' = openAndReadAll("arf", failing)
                           /\ opened' = opened \cup ({"result", "report", "arf"} \ failing)
                           /\ openFailed' = failing
                     /\ notices' = notices \cup
                           {Info(<<"The oscap tool has finished. Reading results...">>),
                            Info(<<"Processing has been finished!">>)}
                     /\ UNCHANGED mCancelRequested
         ELSE /\ notices' = notices \cup {Info(<<"Scanning cancelled!">>)}
              /\ UNCHANGED <<mCancelRequested, buffers, opened, io>>
    /\ pc' = "complete"
    /\ UNCHANGED <<mDryRun, mScannerMode, mCapabilities, disk, thrown, calls,
                   pollInterval, proc, cancelPending, completions, kills, spawns,
                   probes, prereqs, history>>

\* evaluate_finalize clearing the flag on the cancellation branch of lines 206-209.
evaluate_finalize_ClearsFlag ==
    /\ pc = "finalize"
    /\ IF ~mCancelRequested
         THEN IF proc.exitCode = 1
                THEN /\ stdErrSeen' = watchStdErr(stdErrSeen, errPipe)
                     /\ errPipe' = <<>>
                     /\ notices' = notices \cup
                           {Error(<<"There was an error during evaluation! Exit code of the 'oscap' process was 1.">>)}
                     /\ mCancelRequested' = TRUE
                     /\ UNCHANGED <<buffers, opened, openFailed, stdOutSeen, outPipe>>
                ELSE /\ stdOutSeen' = readStdOut(stdOutSeen, outPipe)
                     /\ stdErrSeen' = watchStdErr(stdErrSeen, errPipe)
                     /\ outPipe' = <<>> /\ errPipe' = <<>>
                     /\ \E failing \in OpenFailures :
                           /\ mResults' = openAndReadAll("result", failing)
                           /\ mReport' = openAndReadAll("report", failing)
                           /\ mARF' = openAndReadAll("arf", failing)
                           /\ opened' = opened \cup ({"result", "report", "arf"} \ failing)
                           /\ openFailed' = failing
                     /\ notices' = notices \cup
                           {Info(<<"The oscap tool has finished. Reading results...">>),
                            Info(<<"Processing has been finished!">>)}
                     /\ UNCHANGED mCancelRequested
         ELSE /\ notices' = notices \cup {Info(<<"Scanning cancelled!">>)}
              /\ mCancelRequested' = FALSE
              /\ UNCHANGED <<buffers, opened, io>>
    /\ pc' = "complete"
    /\ UNCHANGED <<mDryRun, mScannerMode, mCapabilities, disk, thrown, calls,
                   pollInterval, proc, cancelPending, completions, kills, spawns,
                   probes, prereqs, history>>

\* evaluate(), lines 173-209: after the loop.
evaluate_finalize ==
    /\ pc = "finalize"
    /\ IF ~mCancelRequested
         THEN IF proc.exitCode = 1
                THEN /\ stdErrSeen' = watchStdErr(stdErrSeen, errPipe)
                     /\ errPipe' = <<>>
                     /\ notices' = notices \cup
                           {Error(<<"There was an error during evaluation! Exit code of the 'oscap' process was 1.">>)}
                     /\ mCancelRequested' = TRUE
                     /\ UNCHANGED <<buffers, opened, openFailed, stdOutSeen, outPipe>>
                ELSE /\ stdOutSeen' = readStdOut(stdOutSeen, outPipe)
                     /\ stdErrSeen' = watchStdErr(stdErrSeen, errPipe)
                     /\ outPipe' = <<>> /\ errPipe' = <<>>
                     /\ \E failing \in OpenFailures :
                           /\ mResults' = openAndReadAll("result", failing)
                           /\ mReport' = openAndReadAll("report", failing)
                           /\ mARF' = openAndReadAll("arf", failing)
                           /\ opened' = opened \cup ({"result", "report", "arf"} \ failing)
                           /\ openFailed' = failing
                     /\ notices' = notices \cup
                           {Info(<<"The oscap tool has finished. Reading results...">>),
                            Info(<<"Processing has been finished!">>)}
                     /\ UNCHANGED mCancelRequested
         ELSE /\ notices' = notices \cup {Info(<<"Scanning cancelled!">>)}
              /\ UNCHANGED <<mCancelRequested, buffers, opened, io>>
    /\ pc' = "complete"
    /\ UNCHANGED <<mDryRun, mScannerMode, mCapabilities, disk, thrown, calls,
                   pollInterval, proc, cancelPending, completions, kills, spawns,
                   probes, prereqs, history>>

\* evaluate(), line 211.
evaluate_complete ==
    /\ pc = "complete"
    /\ completions' = signalCompletion(mCancelRequested)
    /\ pc' = "idle"
    /\ UNCHANGED <<io, scanner, buffers, disk, thrown, calls, pollInterval, proc,
                   cancelPending, notices, kills, spawns, probes, prereqs, opened,
                   history>>

\* ------------------------------------------------- role generation
\* createRemediationRoleAfterEvaluate creating the destination (lines 296-298)
\* before the profile check.
createRemediationRoleAfterEvaluate_PrecreateFirst ==
    /\ pc = "idle"
    /\ calls < MaxCalls
    /\ \E profileId \in ProfileIds, openedForWrite \in BOOLEAN, started \in BOOLEAN,
          payload \in Payloads(calls + 1) :
          /\ FreshCall("role", profileId)
          /\ IF profileId = ""
            THEN /\ notices' = {Error(<<"Unable to get profile ID for the passed check.">>)}
                 /\ pc' = "idle"
                 /\ spawns' = 0
                 /\ proc' = NoProcess
                 /\ roleFile' = [exists |-> TRUE, data |-> <<>>]
            ELSE /\ roleFile' = IF openedForWrite
                                  THEN [exists |-> TRUE, data |-> <<>>]
                                  ELSE roleFile
                 /\ spawns' = 1
                 /\ proc' = IF started
                              THEN [NoProcess EXCEPT !.state = "Running", !.kind = "fix",
                                                     !.cmd = "xccdf generate fix",
                                                     !.payload = payload]
                              ELSE [NoProcess EXCEPT !.kind = "fix",
                                                     !.cmd = "xccdf generate fix"]
                 /\ notices' = {}
                 /\ pc' = "role_started"
    /\ UNCHANGED <<scanner, buffers, files, created, thrown, cancelPending>>

\* createRemediationRoleAfterEvaluate(), lines 285-324: the profile check, the
\* destination opened for writing (the result of open() is not looked at: when
\* it fails the destination stays as it was), process.start() of "oscap xccdf
\* generate fix" and waitForStarted().  The session's profile, whether the
\* open succeeds and whether the start succeeds are inputs.
createRemediationRoleAfterEvaluate ==
    /\ pc = "idle"
    /\ calls < MaxCalls
    /\ \E profileId \in ProfileIds, openedForWrite \in BOOLEAN, started \in BOOLEAN,
          payload \in Payloads(calls + 1) :
          /\ FreshCall("role", profileId)
          /\ IF profileId = ""
            THEN /\ notices' = {Error(<<"Unable to get profile ID for the passed check.">>)}
                 /\ pc' = "idle"
                 /\ spawns' = 0
                 /\ proc' = NoProcess
                 /\ UNCHANGED roleFile
            ELSE /\ roleFile' = IF openedForWrite
                                  THEN [exists |-> TRUE, data |-> <<>>]
                                  ELSE roleFile
                 /\ spawns' = 1
                 /\ proc' = IF started
                              THEN [NoProcess EXCEPT !.state = "Running", !.kind = "fix",
                                                     !.cmd = "xccdf generate fix",
                                                     !.payload = payload]
                              ELSE [NoProcess EXCEPT !.kind = "fix",
                                                     !.cmd = "xccdf generate fix"]
                 /\ notices' = {}
                 /\ pc' = "role_started"
    /\ UNCHANGED <<scanner, buffers, files, created, thrown, cancelPending>>

\* createRemediationRoleAfterEvaluate(), lines 326-328: the poll interval and
\* the "Processing..." notice.
role_started ==
    /\ pc = "role_started"
    /\ pollInterval' = 100
    /\ notices' = notices \cup {Info(<<"Processing...">>)}
    /\ pc' = "role_wait"
    /\ UNCHANGED <<io, scanner, buffers, disk, thrown, calls, proc, cancelPending,
                   completions, kills, spawns, probes, prereqs, opened, history>>

\* role_wait pumping the event queue and killing on the flag, as the loop of evaluate() does.
role_wait_Pumps ==
    /\ pc = "role_wait"
    /\ IF waitForFinished(proc)
         THEN /\ proc' = [proc EXCEPT !.state = "Finished"]
              /\ pc' = "role_finish"
              /\ UNCHANGED <<stdErrSeen, errPipe>>
         ELSE /\ stdErrSeen' = watchStdErr(stdErrSeen, errPipe)
              /\ errPipe' = <<>>
              /\ proc' = IF mCancelRequested \/ cancelPending THEN kill(proc) ELSE proc
              /\ UNCHANGED pc
    /\ mCancelRequested' = (mCancelRequested \/ cancelPending)
    /\ cancelPending' = FALSE
    /\ UNCHANGED <<mDryRun, mScannerMode, mCapabilities, buffers, disk, thrown, calls,
                   pollInterval, observed, history, outPipe, stdOutSeen, openFailed>>

\* createRemediationRoleAfterEvaluate(), lines 329-332: the poll loop.
role_wait ==
    /\ pc = "role_wait"
    /\ IF waitForFinished(proc)
         THEN /\ proc' = [proc EXCEPT !.state = "Finished"]
              /\ pc' = "role_finish"
              /\ UNCHANGED <<stdErrSeen, errPipe>>
         ELSE /\ stdErrSeen' = watchStdErr(stdErrSeen, errPipe)
              /\ errPipe' = <<>>
              /\ UNCHANGED <<proc, pc>>
    /\ UNCHANGED <<scanner, buffers, disk, thrown, calls, pollInterval, cancelPending,
                   observed, history, outPipe, stdOutSeen, openFailed>>

\* role_finish marking the run cancelled on exit code 1, as lines 175-182 of evaluate() do.
role_finish_MarksCancelled ==
    /\ pc = "role_finish"
    /\ IF proc.exitCode = 1
         THEN /\ stdErrSeen' = watchStdErr(stdErrSeen, errPipe)
              /\ errPipe' = <<>>
              /\ notices' = notices \cup {Error(<<"There was an error in course of remediation role generation! Exit code of the 'oscap' process was 1.">>)}
              /\ mCancelRequested' = TRUE
         ELSE UNCHANGED <<stdErrSeen, errPipe, notices, mCancelRequested>>
    /\ pc' = "idle"
    /\ UNCHANGED <<mDryRun, mScannerMode, mCapabilities, buffers, disk, thrown, calls, pollInterval, proc,
                   cancelPending, completions, kills, spawns, probes, prereqs, opened,
                   history, outPipe, stdOutSeen, openFailed>>

\* createRemediationRoleAfterEvaluate(), lines 333-337.
role_finish ==
    /\ pc = "role_finish"
    /\ IF proc.exitCode = 1
         THEN /\ stdErrSeen' = watchStdErr(stdErrSeen, errPipe)
              /\ errPipe' = <<>>
              /\ notices' = notices \cup {Error(<<"There was an error in course of remediation role generation! Exit code of the 'oscap' process was 1.">>)}
         ELSE UNCHANGED <<stdErrSeen, errPipe, notices>>
    /\ pc' = "idle"
    /\ UNCHANGED <<scanner, buffers, disk, thrown, calls, pollInterval, proc,
                   cancelPending, completions, kills, spawns, probes, prereqs, opened,
                   history, outPipe, stdOutSeen, openFailed>>

\* ------------------------------------------------- environment
\* The user asks to cancel while a handler runs: cancel() is queued on the
\* scan thread and runs when that thread's event queue is pumped.
RequestCancel ==
    /\ pc # "idle"
    /\ ~cancelPending
    /\ cancelPending' = TRUE
    /\ cancelRequested' = TRUE
    /\ cancelBeforeExit' = (cancelBeforeExit \/ (proc.kind = "scan" /\ proc.state = "Running"))
    /\ cancelAfterTick' = (cancelAfterTick \/
                           (~cancelRequested /\ proc.kind = "scan"
                              /\ proc.state = "Running" /\ ticked))
    /\ UNCHANGED <<io, scanner, buffers, disk, pc, thrown, calls, pollInterval, proc,
                   observed, callHist, cancelDelivered, stepHist>>

\* The external tool takes its next step: it prints a progress chunk on
\* stdout and a message chunk on stderr (numbered by the step) and writes its
\* next output file: tag byte, then payload.
ProcessWrite ==
    /\ proc.state = "Running"
    /\ ~proc.killed
    /\ IF proc.kind = "scan"
         THEN /\ proc.progress < Len(WriteOrder)
              /\ files' = [files EXCEPT ![WriteOrder[proc.progress + 1]] =
                                  <<FileTag[WriteOrder[proc.progress + 1]]>> \o proc.payload]
              /\ UNCHANGED roleFile
         ELSE /\ proc.progress < 1
              /\ roleFile' = [exists |-> TRUE, data |-> <<FileTag.role>> \o proc.payload]
              /\ UNCHANGED files
    /\ proc' = [proc EXCEPT !.progress = @ + 1]
    /\ outPipe' = Append(outPipe, proc.progress + 1)
    /\ errPipe' = Append(errPipe, proc.progress + 1)
    /\ UNCHANGED <<scanner, buffers, created, pc, thrown, calls, pollInterval,
                   cancelPending, observed, history, drained, openFailed>>

\* The external tool exits, by itself or after a kill, with some exit code.
ProcessExit ==
    /\ proc.state = "Running"
    /\ \E code \in ExitCodes : proc' = [proc EXCEPT !.state = "Exited", !.exitCode = code]
    /\ UNCHANGED <<io, scanner, buffers, disk, pc, thrown, calls, pollInterval,
                   cancelPending, observed, history>>

\* ------------------------------------------------- specification
Evaluate ==
    \/ evaluate_entry
    \/ fillInCapabilities
    \/ evaluate_catch
    \/ evaluate_prerequisites
    \/ evaluate_launch
    \/ evaluate_started
    \/ evaluate_wait
    \/ evaluate_readStdOut
    \/ evaluate_watchStdErr
    \/ evaluate_pump
    \/ evaluate_poll
    \/ evaluate_finalize
    \/ evaluate_complete

RoleGeneration ==
    \/ role_started
    \/ role_wait
    \/ role_finish

Next ==
    \/ StartEvaluate
    \/ Evaluate
    \/ createRemediationRoleAfterEvaluate
    \/ RoleGeneration
    \/ RequestCancel
    \/ ProcessWrite
    \/ ProcessExit

Spec == Init /\ [][Next]_vars

\* The scan thread keeps executing the handler it is in, and a process that
\* was started eventually exits.
LiveSpec ==
    /\ Init /\ [][Next]_vars
    /\ WF_vars(Evaluate)
    /\ WF_vars(RoleGeneration)
    /\ WF_vars(ProcessExit)

TypeOK ==
    /\ mDryRun \in BOOLEAN /\ mCancelRequested \in BOOLEAN
    /\ mScannerMode \in ScannerModes
    /\ pc \in {"idle", "entry", "probe", "catch", "prereq", "launch", "started", "wait",
               "readStdOut", "watchStdErr", "pump", "poll", "finalize", "complete",
               "role_started", "role_wait", "role_finish"}
    /\ calls \in 0..MaxCalls
    /\ kills \in 0..MaxKills
    /\ pollInterval \in {100, 1000}
    /\ opened \subseteq FileNames
    /\ openFailed \in OpenFailures
    /\ prereqVerdict \in {"none", "passed", "failed"}
    /\ Len(outPipe) <= Len(WriteOrder) /\ Len(stdOutSeen) <= Len(WriteOrder)
    /\ Len(errPipe) <= Len(WriteOrder) /\ Len(stdErrSeen) <= Len(WriteOrder)
    /\ created = FileNames
    /\ Len(completions) <= 1

\* ------------------------------------------------- claims
InEvaluate == handler = "evaluate"
\* evaluate() has returned to its caller.
Returned == handler = "evaluate" /\ pc = "idle"
ErrorNotices == {n \in notices : n.level = "error"}
BuffersNow == <<mResults, mReport, mARF>>
FilesNow == <<files["result"], files["report"], files["arf"]>>
NoArtifactRead == opened = {} /\ openFailed = {} /\ BuffersNow = buffersAtEntry
\* What the three buffers hold after the read step went over all three files.
ReadOutcome == <<openAndReadAll("result", openFailed),
                 openAndReadAll("report", openFailed),
                 openAndReadAll("arf", openFailed)>>

\* C1: in every execution of evaluate() signalCompletion is invoked at most
\* once; an execution that has returned has invoked it exactly once, and the
\* value it carried is the value of the cancellation flag.
C1_SingleCompletion ==
    InEvaluate =>
        /\ Len(completions) <= 1
        /\ (pc = "idle" => Len(completions) = 1)
        /\ (Len(completions) = 1 => completions[1] = mCancelRequested)

\* C1 witness: a run that was cancelled in the poll loop has returned, and a
\* probe failure has returned.
C1_Witness ==
    /\ Returned /\ proc.state = "Finished" /\ cancelDelivered
    /\ completions = <<TRUE>>

\* C2: every run of evaluate() eventually signals completion, on every
\* failure path and on cancellation, given that a started process exits.
C2_EveryRunCompletes == (InEvaluate /\ pc = "entry") ~> (Len(completions) = 1)

\* C3: a cancellation requested after the launch and before the process exits
\* makes the run end cancelled with no artifact read, whatever the exit code,
\* also when the request arrives during the final poll tick.
C3_CancelBeforeExitWins ==
    (Returned /\ cancelBeforeExit) => (completions = <<TRUE>> /\ opened = {})

\* C4: exit code exactly 1 with no cancellation requested: no artifact is
\* read, an error notice is emitted, the flag is set and the completion signal
\* carries cancelled = true.
C4_ExitCodeOneIsCancelled ==
    (InEvaluate /\ pc \in {"complete", "idle"} /\ proc.state = "Finished"
       /\ proc.exitCode = 1 /\ ~cancelRequested)
    => /\ NoArtifactRead
       /\ ErrorNotices # {}
       /\ mCancelRequested
       /\ (pc = "idle" => completions = <<TRUE>>)

\* C4 witness: the tool wrote all its files, exited with 1, the run returned.
C4_Witness ==
    /\ Returned /\ proc.state = "Finished" /\ proc.exitCode = 1 /\ ~cancelRequested
    /\ proc.progress = Len(WriteOrder)

\* C5: a dry run, in every scan mode, never probes, never spawns and reads no
\* artifact file, and when it has returned all three buffers are empty and the
\* completion it signalled carries cancelled = false.
C5_DryRunIsNoOp ==
    (InEvaluate /\ mDryRun)
    => /\ pc \in {"entry", "idle"}
       /\ probes = 0 /\ spawns = 0 /\ prereqs = 0
       /\ NoArtifactRead
       /\ (pc = "idle" => /\ BuffersNow = <<<<>>, <<>>, <<>>>>
                          /\ completions = <<FALSE>>)

\* C6: a probe that exits non-zero ends the run cancelled, with a non-empty
\* error notice, no scan process, no prerequisite check, no artifact read and
\* no second probe.
C6_ProbeFailureEndsRun ==
    (InEvaluate /\ probeExit \notin {-1, 0})
    => /\ pc \in {"catch", "idle"}
       /\ mCancelRequested /\ completions = <<TRUE>>
       /\ probes = 1 /\ spawns = 0 /\ prereqs = 0
       /\ NoArtifactRead
       /\ (pc = "idle" => \E n \in ErrorNotices : Len(n.text) > 0)

\* C6 witness: the probe exited with 2 and carried no diagnostic output.
C6_Witness ==
    Returned /\ probeExit = 2 /\ Error(ProbeMessage(<<>>)) \in notices

\* C7: when a cancellation requested after the first poll tick is observed
\* by the loop, kill is issued exactly once over the whole run: never more
\* than once at any point of the run, and once when the run has returned.
C7_KillIssuedOnce ==
    (InEvaluate /\ cancelAfterTick /\ cancelDelivered)
    => /\ kills <= 1
       /\ (Returned => kills = 1)

\* C8: role generation with an empty profile identifier emits an error
\* notice, spawns no process and leaves the destination file as it was.
C8_MissingProfileTouchesNothing ==
    (handler = "role" /\ profileAtCall = "")
    => /\ pc = "idle"
       /\ ErrorNotices # {}
       /\ spawns = 0 /\ proc = NoProcess
       /\ roleFile = roleFileAtEntry

\* C8 witness: the call was made with an existing, non-empty destination.
C8_Witness ==
    /\ handler = "role" /\ profileAtCall = ""
    /\ roleFile.exists /\ roleFile.data # <<>>

\* C9: an artifact file is opened for reading only after the started process
\* has exited with the flag clear and an exit code other than 1; cancelled =
\* false on a non-dry run means the read step went over all three (each buffer
\* holds what open-and-read of its file gave), cancelled = true over none.
C9_ArtifactsReadOnlyOnSuccess ==
    InEvaluate =>
        /\ (opened \cup openFailed # {} =>
               /\ proc.kind = "scan" /\ proc.state = "Finished"
               /\ ~mCancelRequested /\ proc.exitCode # 1)
        /\ ((pc = "idle" /\ ~mDryRun /\ completions = <<FALSE>>) =>
               /\ opened \cup openFailed = FileNames
               /\ proc.state = "Finished"
               /\ BuffersNow = ReadOutcome)
        /\ (completions = <<TRUE>> => NoArtifactRead)

\* C9 witness: a run returned not cancelled after the tool exited with 2,
\* having written all its files.
C9_Witness ==
    /\ Returned /\ ~mDryRun /\ completions = <<FALSE>>
    /\ proc.exitCode = 2 /\ proc.progress = Len(WriteOrder)

\* C10: at every launch of the scan process each of the three artifact files
\* exists and is empty, also on a second evaluate() of the same scanner.
C10_ArtifactsEmptyAtLaunch ==
    (InEvaluate /\ spawns > 0)
    => /\ created = FileNames
       /\ \A f \in FileNames : filesAtLaunch[f] = <<>>

\* The bytes the process of the current call has written to file f: the files
\* it has reached in WriteOrder hold the tag and its payload, the others
\* nothing of this run.
WrittenThisRun(f) ==
    IF \E i \in 1..proc.progress : WriteOrder[i] = f
      THEN <<FileTag[f]>> \o proc.payload
      ELSE <<>>

\* C11: after a successful run (every open succeeded) each of the three
\* buffers equals exactly the bytes the process of that run wrote to its
\* file: nothing truncated, no bytes of an earlier run on the same scanner.
C11_BuffersAreThisRunsBytes ==
    (Returned /\ ~mDryRun /\ completions = <<FALSE>> /\ openFailed = {})
    => BuffersNow = <<WrittenThisRun("result"), WrittenThisRun("report"),
                      WrittenThisRun("arf")>>

\* The scan process of this call was started and the test of line 147 found
\* that it does not report a running state.
LaunchFailed ==
    /\ InEvaluate /\ spawns > 0 /\ pc # "started"
    /\ proc.kind = "scan" /\ proc.state = "NotRunning"

\* C12: when the started process does not report a running state the launch
\* error notice is emitted and the flag set, no artifact is read, no kill is
\* issued and no cancellation-in-progress notice is emitted for the process
\* that never started, and a completion, once signalled, carries true.
C12_LaunchFailureEndsRun ==
    LaunchFailed =>
        /\ Error(<<"Failed to start local scanning process">>) \in notices
        /\ mCancelRequested
        /\ NoArtifactRead
        /\ kills = 0
        /\ Info(<<"Cancellation was requested! Terminating scanning...">>) \notin notices
        /\ (completions # <<>> => completions = <<TRUE>>)

\* The notices of the success path, lines 189 and 203.
SuccessNotices ==
    {Info(<<"The oscap tool has finished. Reading results...">>),
     Info(<<"Processing has been finished!">>)}

\* C13: with no cancellation requested, a process that exits with any code
\* other than 1 (0, 2, ...) gives the success path: the read step goes over
\* all three files, the success notices are emitted, no error notice, and the
\* completion carries false; only exit code 1 gives the tool error.
C13_OnlyExitCodeOneIsAnError ==
    (Returned /\ ~mDryRun /\ proc.kind = "scan" /\ proc.state = "Finished"
       /\ ~cancelRequested)
    => IF proc.exitCode = 1
         THEN /\ ErrorNotices # {}
              /\ SuccessNotices \cap notices = {}
              /\ NoArtifactRead
              /\ completions = <<TRUE>>
         ELSE /\ ErrorNotices = {}
              /\ SuccessNotices \subseteq notices
              /\ opened \cup openFailed = FileNames
              /\ BuffersNow = ReadOutcome
              /\ completions = <<FALSE>>

\* C13 witness: an uncancelled run has returned after the tool printed, wrote
\* its files and exited with 2, and every file was read.
C13_Witness ==
    /\ Returned /\ ~cancelRequested
    /\ proc.state = "Finished" /\ proc.exitCode = 2
    /\ opened = FileNames /\ mARF # <<>> /\ stdOutSeen # <<>>

\* The chunks a process has produced on one of its streams after n steps.
Chunks(n) == [i \in 1..n |-> i]

\* evaluate() left the loop by the exit of the process and did not take the
\* cancellation branch of lines 206-209.
ReturnedNotCancelled ==
    /\ Returned /\ proc.kind = "scan" /\ proc.state = "Finished"
    /\ Info(<<"Scanning cancelled!">>) \notin notices

\* C14: every chunk the scan process produced on stdout and on stderr is read
\* at most once and in the order it was produced, and on every path that ends
\* without cancellation, the exit-code-1 path included, both streams have been
\* drained after the exit: nothing the process produced is left unread.
C14_OutputDrainedInOrder ==
    (InEvaluate /\ proc.kind = "scan") =>
        /\ stdOutSeen \o outPipe = Chunks(proc.progress)
        /\ stdErrSeen \o errPipe = Chunks(proc.progress)
        /\ (ReturnedNotCancelled => (outPipe = <<>> /\ errPipe = <<>>))

\* C15: the artifacts are read in the one finalize step (before it none of
\* the three has been opened, after it all three have been gone over), and a
\* run in which opening any one of them failed after a clean exit does not end
\* as a success: no "finished" notice, completion not false.
C15_FailedReadIsNotSuccess ==
    InEvaluate =>
        /\ (pc \notin {"complete", "idle"} => opened \cup openFailed = {})
        /\ (opened \cup openFailed # {} => opened \cup openFailed = FileNames)
        /\ ((Returned /\ openFailed # {}) =>
               /\ Info(<<"Processing has been finished!">>) \notin notices
               /\ completions # <<FALSE>>)

\* A step that starts a new run of evaluate().
NewRun == calls' # calls /\ handler' = "evaluate"

\* C16: the cancellation flag is monotonic within a run: no step of
\* evaluate() or of createRemediationRoleAfterEvaluate takes it from true to
\* false, and a completion signalled when the flag was true carries true.
C16_FlagIsMonotonic ==
    [][(mCancelRequested /\ ~NewRun) =>
          /\ mCancelRequested'
          /\ (Len(completions') > Len(completions)
                => completions' = Append(completions, TRUE))]_vars

\* C16 witness: a cancel was delivered in the poll loop, the process then
\* exited with 0, and the run returned with the flag still set.
C16_Witness ==
    /\ Returned /\ cancelDelivered /\ ticked
    /\ proc.state = "Finished" /\ proc.exitCode = 0
    /\ mCancelRequested /\ completions = <<TRUE>>

\* C17: the scan process is started only after the capability probe
\* succeeded and then the prerequisite check passed, each done once and in
\* that order; when the prerequisite check fails the flag is set, the
\* completion carries true, evaluate() has returned, and no process is started
\* and no artifact read.
C17_LaunchOnlyAfterProbeAndPrerequisites ==
    InEvaluate =>
        /\ (prereqVerdict # "none" => (probes = 1 /\ probeExit = 0 /\ prereqs = 1))
        /\ (spawns > 0 => (spawns = 1 /\ prereqVerdict = "passed"))
        /\ (prereqVerdict = "failed" =>
               /\ mCancelRequested /\ completions = <<TRUE>> /\ pc = "idle"
               /\ spawns = 0 /\ proc = NoProcess
               /\ NoArtifactRead)

\* C17 witness: on a scanner whose earlier run was launched and read its
\* results, a second run has returned from a failed prerequisite check.
C17_Witness ==
    /\ Returned /\ prereqVerdict = "failed"
    /\ calls = 2 /\ mResults # <<>> /\ completions = <<TRUE>>

\* C18: on a probe failure the flag is set and the completion emitted before
\* the probe's error notice: while the fault is in flight to the catch block
\* both are done and no error notice is out yet, and an error notice of the
\* probe is never out without them.  The fault is caught inside evaluate():
\* none is in flight outside the catch block, in particular after the return.
C18_CompletionBeforeProbeNotice ==
    InEvaluate =>
        /\ (pc = "catch" =>
               /\ thrown # <<>> /\ probeExit \notin {-1, 0}
               /\ mCancelRequested /\ completions = <<TRUE>>
               /\ ErrorNotices = {})
        /\ (pc # "catch" => thrown = <<>>)
        /\ \A diag \in DiagInfos :
              Error(ProbeMessage(diag)) \in notices
              => (mCancelRequested /\ completions = <<TRUE>> /\ pc = "idle")

\* C18 witness: the probe has failed with diagnostic output and its fault is
\* on the way to the catch block.
C18_Witness ==
    /\ InEvaluate /\ pc = "catch" /\ thrown = ProbeMessage(<<"diag">>)
    /\ completions = <<TRUE>> /\ ErrorNotices = {}

\* Role generation is past its profile check.
InRoleGeneration == handler = "role" /\ profileAtCall # ""
RoleErrorNotice ==
    Error(<<"There was an error in course of remediation role generation! Exit code of the 'oscap' process was 1.">>)

\* What holds of role generation past the profile check in every state.
RoleRunsToExit ==
    InRoleGeneration =>
        /\ kills = 0 /\ ~proc.killed
        /\ Info(<<"Cancellation was requested! Terminating scanning...">>) \notin notices
        /\ (pc = "role_finish" => proc.state = "Finished")
        /\ (pc = "idle" =>
               /\ proc.state = "Finished"
               /\ (RoleErrorNotice \in notices <=> proc.exitCode = 1))
        /\ (pc # "idle" => RoleErrorNotice \notin notices)

\* What holds of every step taken while role generation runs: a queued cancel
\* is never delivered, the flag keeps its value, and the call is left only
\* with the process finished.
RoleIgnoresCancel ==
    (InRoleGeneration /\ pc # "idle") =>
        /\ (cancelPending => cancelPending')
        /\ mCancelRequested' = mCancelRequested
        /\ (pc' = "idle" => proc'.state = "Finished")

\* Once the process role generation launched has exited, the call returns.
RoleReturnsAfterExit ==
    (InRoleGeneration /\ pc # "idle" /\ proc.state = "Exited") ~> (pc = "idle")

\* C19: role generation past the profile check cannot be cancelled and blocks
\* until its process exits: it never kills the process and never pumps the
\* event queue, the flag set before or a cancel asked for during the call
\* changes nothing, it returns only after the process it launched has exited
\* and does return once that process has exited, and it emits its error
\* notice exactly when the exit code is 1.
C19_RoleGenerationNotCancellable ==
    /\ []RoleRunsToExit
    /\ [][RoleIgnoresCancel]_vars
    /\ RoleReturnsAfterExit

\* C19 witness: role generation started with the flag set, a cancel was asked
\* for while it ran and is still queued, and the call has returned after its
\* process exited with 1.
C19_Witness ==
    /\ InRoleGeneration /\ pc = "idle"
    /\ mCancelRequested /\ cancelPending
    /\ proc.state = "Finished" /\ proc.exitCode = 1 /\ RoleErrorNotice \in notices

\* C20: role generation leaves the state of the scan run as it found it on
\* every path (missing profile, exit code 1, success): no step of the call,
\* its first included, changes the cancellation flag or one of the three
\* buffers, and the call signals no completion.
C20_RoleGenerationLeavesRunState ==
    [][handler' = "role" =>
          /\ mCancelRequested' = mCancelRequested
          /\ buffers' = buffers
          /\ completions' = <<>>]_vars

\* C20 witness: after a scan that read its archive and ended with the flag
\* clear, role generation has returned from a process that exited with 1.
C20_Witness ==
    /\ InRoleGeneration /\ pc = "idle"
    /\ proc.state = "Finished" /\ proc.exitCode = 1
    /\ ~mCancelRequested /\ mARF # <<>> /\ completions = <<>>

====
